---- MODULE Spec2Model ----
(***************************************************************************)
(* PlaylistRX (src/PlaylistRX.py): the weighted selection of the Radio     *)
(* generator and of the Master assembler, and the rate-limit retry of the  *)
(* Spotify connection.                                                     *)
(*                                                                         *)
(* Numbers.  weightModifier is a float; here it is the rational m/ModDen,  *)
(* and every weight is kept in units of 1/ModDen (the weight 10 is         *)
(* 10*ModDen).  random.random() is the rational d/RandDen with             *)
(* d in 0..RandDen-1, so that  d/RandDen < weight/10  is                   *)
(* d*10*ModDen < w*RandDen.                                                *)
(***************************************************************************)
EXTENDS Integers, Sequences, FiniteSets, TLC

VARIABLES
  wt,         \* the weight decision under test: its inputs, then its outcome
  rpc,        \* _withRetry: "idle", "trying", "sleeping", "returned" or "raised"
  rfunc,      \* _withRetry: the client operation being called
  ranswer,    \* what the service answered to the latest attempt
  rsleep,     \* seconds left of time.sleep(retryAfter)
  rout,       \* what _withRetry handed to its caller: a result or an exception
  rattempts,  \* attempts made for the current call (history, saturating)
  rfailures,  \* attempts of the current call that failed other than by 429 (history)
  pc,         \* main: where the run is
  config,     \* main: the configuration dict (a key may be missing)
  playlists,  \* the service: playlist name -> the ordered track ids in it
  liked,      \* the service: the user's saved tracks
  topPositions,         \* main: track id -> 0-based position among the user's top tracks
  tooMuchCounts,        \* main: track id -> occurrences in the Too Much playlist
  artistTooMuch,        \* main: ids of the artists counted 3+ times (by name)
  artistBlacklistNames, \* main: names of the artists counted 10+ times
  gr,         \* generateRadio's locals
  mn,         \* main's locals of the Master part
  calls,      \* history: the clearPlaylist / addTracksToPlaylist calls made, in order
  seen        \* history: per candidate (Master track, Radio artist) what was decided

wvars == <<wt>>
rvars == <<rpc, rfunc, ranswer, rsleep, rout, rattempts, rfailures>>
envvars == <<config, liked, topPositions>>
startvars == <<tooMuchCounts, artistTooMuch, artistBlacklistNames>>
runvars == <<pc, config, playlists, liked, topPositions, tooMuchCounts, artistTooMuch,
             artistBlacklistNames, gr, mn, calls, seen>>
vars == <<wt, rpc, rfunc, ranswer, rsleep, rout, rattempts, rfailures,
          pc, config, playlists, liked, topPositions, tooMuchCounts, artistTooMuch,
          artistBlacklistNames, gr, mn, calls, seen>>

(* ------------------------------ bounds -------------------------------- *)
ModDen == 2
RandDen == 4
MaxModifier == 5
MaxCount == 4
MaxArtistCount == 7
MaxTopTracks == 200
MaxRetryAfter == 2
MaxAttempts == 3
RateLimited == 429
MaxRadioSongs == 3
MaxRandomSongs == 2

Modifiers == 0..(MaxModifier * ModDen)
Draws == 0..(RandDen - 1)
Ranks == 0..(MaxTopTracks - 1)

(* ------------------------------ helpers ------------------------------- *)
Min(a, b) == IF a < b THEN a ELSE b
Max(a, b) == IF a > b THEN a ELSE b

\* dict.get(k, default)
Get(d, k, default) == IF k \in DOMAIN d THEN d[k] ELSE default

\* the empty dict, and the dict with the one key k
EmptyDict == [k \in {} |-> 0]
OneDict(k, v) == [x \in {k} |-> v]

(* --------------------------- the weight code -------------------------- *)
\* generateRadio, top tracks: weight before the clamp
RadioTopWeightRaw(tid, tooMuch, topPos, m) ==
  LET tmCount == Get(tooMuch, tid, 0)
      w1 == IF tmCount = 1 THEN 10 * ModDen - 5 * m
            ELSE IF tmCount = 2 THEN 10 * ModDen - 7 * m
            ELSE IF tmCount >= 3 THEN 10 * ModDen - 9 * m
            ELSE 10 * ModDen
  IN  IF tid \in DOMAIN topPos
        THEN LET pos == topPos[tid]
             IN  IF pos < 50 THEN w1 - 5 * m
                 ELSE IF pos < 100 THEN w1 - 4 * m
                 ELSE IF pos < 200 THEN w1 - 3 * m
                 ELSE w1
        ELSE w1

\* weight = max(0, min(10, weight))
RadioTopWeight(tid, tooMuch, topPos, m) ==
  Max(0, Min(10 * ModDen, RadioTopWeightRaw(tid, tooMuch, topPos, m)))

\* if random.random() >= (weight / 10): continue
RadioTopSkipped(w, d) == d * 10 * ModDen >= w * RandDen

\* RadioReplWeightRaw with the rank breakpoints taken inclusively (pos <= 50, ...)
RadioReplWeightRawInclusive(tid, tooMuch, topPos, m) ==
  LET tmCount == Get(tooMuch, tid, 0)
      w1 == IF tmCount = 1 THEN 10 * ModDen - 5 * m
            ELSE IF tmCount = 2 THEN 10 * ModDen - 7 * m
            ELSE IF tmCount >= 3 THEN 10 * ModDen - 9 * m
            ELSE 10 * ModDen
  IN  IF tid \in DOMAIN topPos
        THEN LET pos == topPos[tid]
             IN  IF pos <= 50 THEN w1 - 5 * m
                 ELSE IF pos <= 100 THEN w1 - 4 * m
                 ELSE IF pos <= 200 THEN w1 - 3 * m
                 ELSE w1
        ELSE w1

\* generateRadio, replacement pool: weight before the clamp
RadioReplWeightRaw(tid, tooMuch, topPos, m) ==
  LET tmCount == Get(tooMuch, tid, 0)
      w1 == IF tmCount = 1 THEN 10 * ModDen - 5 * m
            ELSE IF tmCount = 2 THEN 10 * ModDen - 7 * m
            ELSE IF tmCount >= 3 THEN 10 * ModDen - 9 * m
            ELSE 10 * ModDen
  IN  IF tid \in DOMAIN topPos
        THEN LET pos == topPos[tid]
             IN  IF pos < 50 THEN w1 - 5 * m
                 ELSE IF pos < 100 THEN w1 - 4 * m
                 ELSE IF pos < 200 THEN w1 - 3 * m
                 ELSE w1
        ELSE w1

RadioReplWeight(tid, tooMuch, topPos, m) ==
  Max(0, Min(10 * ModDen, RadioReplWeightRaw(tid, tooMuch, topPos, m)))

RadioReplSkipped(w, d) == d * 10 * ModDen >= w * RandDen

\* main, Master decisions: the track-level weight
MasterTrackWeight(tid, tooMuch, topPos, m) ==
  LET count == Get(tooMuch, tid, 0)
      w1 == IF count = 1 THEN 10 * ModDen - 5 * m
            ELSE IF count = 2 THEN 10 * ModDen - 7 * m
            ELSE IF count >= 3 THEN 10 * ModDen - 9 * m
            ELSE 10 * ModDen
  IN  IF tid \in DOMAIN topPos
        THEN LET pos == topPos[tid]
             IN  IF pos < 50 THEN w1 - 5 * m
                 ELSE IF pos < 100 THEN w1 - 4 * m
                 ELSE IF pos < 200 THEN w1 - 3 * m
                 ELSE w1
        ELSE w1

\* main, "Enhanced artist weight reduction": what artistCount takes off
MasterArtistReduction(artistCount, m) ==
  IF artistCount >= 6 THEN 3 * m
  ELSE IF artistCount >= 3 THEN 2 * m
  ELSE 0

\* MasterIncluded with <= for <
MasterIncludedOrEqual(w, d) == d * 10 * ModDen <= w * RandDen

\* included = random.random() < (weight / 10)
MasterIncluded(w, d) == d * 10 * ModDen < w * RandDen

\* main, lines 505-519: the weight after the artist-level reduction
MasterWeight(trackWeight, artistOn, inArtistTooMuch, artistCount, m) ==
  IF artistOn /\ inArtistTooMuch
    THEN trackWeight - MasterArtistReduction(artistCount, m)
    ELSE trackWeight

(* ===================== the weight decisions, alone ==================== *)
(* One decision of each of the three places that turn a weight into an    *)
(* inclusion probability, on every input: the track "t" with its Too Much *)
(* count, its top-track position (or none), the modifier, and for the     *)
(* Master the artist-level inputs.                                        *)
Sites == {"radioTop", "radioRepl", "master"}

WtTooMuch == IF wt.count > 0 THEN OneDict("t", wt.count) ELSE EmptyDict
WtTopPos == IF wt.hasRank THEN OneDict("t", wt.pos) ELSE EmptyDict

\* The inputs the program can meet: a position only with a rank; the artist
\* inputs only in the Master; artistCount sums the Too Much counts of the
\* artist's candidate tracks, the track's own count among them.
WeightIdle == wt = [pc |-> "off"]

RetryIdle ==
  /\ rpc = "off" /\ rfunc = "none" /\ ranswer = [kind |-> "none"]
  /\ rsleep = 0 /\ rout = [kind |-> "none"] /\ rattempts = 0 /\ rfailures = 0

RunIdle ==
  /\ pc = "off" /\ config = <<>> /\ playlists = <<>> /\ liked = <<>>
  /\ topPositions = <<>> /\ tooMuchCounts = <<>> /\ artistTooMuch = {}
  /\ artistBlacklistNames = {} /\ gr = <<>> /\ mn = <<>> /\ calls = <<>> /\ seen = <<>>

InitWeight ==
  /\ RetryIdle /\ RunIdle
  /\ \E s \in Sites, c \in 0..MaxCount, hr \in BOOLEAN, m \in Modifiers :
    \E p \in (IF hr THEN Ranks ELSE {0}),
       ao \in (IF s = "master" THEN BOOLEAN ELSE {FALSE}) :
      \E it \in (IF ao THEN BOOLEAN ELSE {FALSE}) :
        \E ac \in (IF it THEN c..MaxArtistCount ELSE {0}) :
          wt = [pc |-> "input", site |-> s, count |-> c, hasRank |-> hr, pos |-> p,
                m |-> m, artistOn |-> ao, inArtistTooMuch |-> it, artistCount |-> ac,
                raw |-> 0, weight |-> 0, included |-> FALSE]

DecideRadioTop ==
  /\ wt.pc = "input" /\ wt.site = "radioTop"
  /\ \E d \in Draws :
       LET raw == RadioTopWeightRaw("t", WtTooMuch, WtTopPos, wt.m)
           w == RadioTopWeight("t", WtTooMuch, WtTopPos, wt.m)
       IN  wt' = [wt EXCEPT !.pc = "decided", !.raw = raw, !.weight = w,
                            !.included = ~RadioTopSkipped(w, d)]
  /\ UNCHANGED <<rvars, runvars>>

DecideRadioRepl ==
  /\ wt.pc = "input" /\ wt.site = "radioRepl"
  /\ \E d \in Draws :
       LET raw == RadioReplWeightRaw("t", WtTooMuch, WtTopPos, wt.m)
           w == RadioReplWeight("t", WtTooMuch, WtTopPos, wt.m)
       IN  wt' = [wt EXCEPT !.pc = "decided", !.raw = raw, !.weight = w,
                            !.included = ~RadioReplSkipped(w, d)]
  /\ UNCHANGED <<rvars, runvars>>

DecideMaster ==
  /\ wt.pc = "input" /\ wt.site = "master"
  /\ \E d \in Draws :
       LET raw == MasterTrackWeight("t", WtTooMuch, WtTopPos, wt.m)
           w == MasterWeight(raw, wt.artistOn, wt.inArtistTooMuch, wt.artistCount, wt.m)
       IN  wt' = [wt EXCEPT !.pc = "decided", !.raw = raw, !.weight = w,
                            !.included = MasterIncluded(w, d)]
  /\ UNCHANGED <<rvars, runvars>>

NextWeight == DecideRadioTop \/ DecideRadioRepl \/ DecideMaster

SpecWeight == InitWeight /\ [][NextWeight]_vars

(* ------------------- the claims about the weight ---------------------- *)
\* the tier tables as the specification states them, in whole weight points
TierOfCount(c) == IF c = 0 THEN 0 ELSE IF c = 1 THEN 5 ELSE IF c = 2 THEN 7 ELSE 9
TierOfRank(hasRank, pos) ==
  IF ~hasRank THEN 0
  ELSE IF pos < 50 THEN 5 ELSE IF pos < 100 THEN 4 ELSE IF pos < 200 THEN 3 ELSE 0
TierOfArtist(applies, artistCount) ==
  IF ~applies THEN 0
  ELSE IF artistCount >= 6 THEN 3 ELSE IF artistCount >= 3 THEN 2 ELSE 0

\* the penalty the decision under test applied, in units of 1/ModDen
WtPenalty ==
  wt.m * (TierOfCount(wt.count) + TierOfRank(wt.hasRank, wt.pos)
          + TierOfArtist(wt.artistOn /\ wt.inArtistTooMuch, wt.artistCount))

\* C2: at each of the three places that turn a weight into the probability
\* weight/10, the weight used lies in [0,10].
C2_WeightUsedInRange ==
  wt.pc = "decided" => (0 <= wt.weight /\ wt.weight <= 10 * ModDen)

\* C3: in the Radio path and in the Master path with the artist features off,
\* what is taken off the starting weight 10 is modifier x (overplay tier +
\* rank tier); with modifier 1 and no rank the weight is 10, 5, 3, 1 for the
\* counts 0, 1, 2, >= 3, and with modifier 0 it is 10 on every input.
C3_PenaltyIsTierTable ==
  (wt.pc = "decided" /\ ~wt.artistOn) =>
    /\ 10 * ModDen - wt.raw
         = wt.m * (TierOfCount(wt.count) + TierOfRank(wt.hasRank, wt.pos))
    /\ (wt.site = "master" => wt.weight = wt.raw)
    /\ ((wt.m = ModDen /\ ~wt.hasRank) =>
          wt.weight = ModDen * (10 - TierOfCount(wt.count)))
    /\ (wt.m = 0 => wt.weight = 10 * ModDen)

\* a rank-100 track heard twice, modifier 1, in the replacement pool: 10 - 7 - 3
C3_Witness ==
  /\ wt.pc = "decided" /\ wt.site = "radioRepl"
  /\ wt.count = 2 /\ wt.hasRank /\ wt.pos = 100 /\ wt.m = ModDen
  /\ wt.raw = 0

\* C4: a track whose penalties sum to 10 or more is never included, whatever
\* the random source returns: not in the Master selection, not as a Radio
\* top-track slot, not as a Radio replacement.
C4_ZeroWeightNeverIncluded ==
  (wt.pc = "decided" /\ WtPenalty >= 10 * ModDen) => ~wt.included

\* the specification's scenario: count 3, rank 10, modifier 1 in the Master,
\* weight 10 - 9 - 5 = -4, not included
C4_Witness ==
  /\ wt.pc = "decided" /\ wt.site = "master" /\ ~wt.artistOn
  /\ wt.count = 3 /\ wt.hasRank /\ wt.pos = 10 /\ wt.m = ModDen
  /\ wt.weight = -4 * ModDen /\ ~wt.included

(* ========================= the run of main() ========================== *)
(* The service's catalog: a fixed set of tracks and artists.  A name is a *)
(* sequence of characters, so that lower() and the substring test of the   *)
(* blacklist are computed, not assumed.                                    *)
Range(f) == {f[i] : i \in DOMAIN f}

NameBe == <<"B", "E">>
NameBeyonce == <<"B", "e", "y", "o", "n", "c", "é">>
NameAbba == <<"A", "b", "b", "a">>
NameUnknown == <<"U", "n", "k", "n", "o", "w", "n">>

ArtistName(a) ==
  CASE a = "aBe" -> NameBe
    [] a = "aBey" -> NameBeyonce
    [] a = "aAbba" -> NameAbba

\* what client.tracks gives for a track: its name and its artists (ids, first
\* one the primary); "x1" has no artist
CatalogTrack(t) ==
  CASE t = "be1" -> [name |-> "Intro", artists |-> <<"aBe">>]
    [] t = "be2" -> [name |-> "Outro", artists |-> <<"aBe">>]
    [] t = "by1" -> [name |-> "Halo", artists |-> <<"aBey">>]
    [] t = "by1r" -> [name |-> "Halo", artists |-> <<"aBey">>]
    [] t = "by2" -> [name |-> "Formation", artists |-> <<"aBey", "aBe">>]
    [] t = "by3" -> [name |-> "Sorry", artists |-> <<"aBey">>]
    [] t = "by4" -> [name |-> "Daddy Lessons", artists |-> <<"aBey">>]
    [] t = "by5" -> [name |-> "Hold Up", artists |-> <<"aBey">>]
    [] t = "ab1" -> [name |-> "SOS", artists |-> <<"aAbba">>]
    [] t = "ab2" -> [name |-> "Fernando", artists |-> <<"aAbba">>]
    [] t = "ab3" -> [name |-> "Chiquitita", artists |-> <<"aAbba">>]
    [] t = "x1" -> [name |-> "Voice memo", artists |-> <<>>]


\* client.artist_top_tracks(artistId)["tracks"]: the ids, service-ranked
ArtistTopTracks(a) ==
  CASE a = "aBey" -> <<"by1", "by2", "by3">>
    [] a = "aAbba" -> <<"ab1", "ab2">>
    [] a = "aBe" -> <<"be1">>

\* client.artist_albums then client.album_tracks, album after album: each
\* track with its first artist and, where the service gives one, a popularity
ArtistAlbumTracks(a) ==
  CASE a = "aBey" ->
         << [id |-> "by2", first |-> "aBey", popularity |-> 5],
            [id |-> "by4", first |-> "aBey", popularity |-> 9],
            [id |-> "ab3", first |-> "aAbba", popularity |-> 8],
            [id |-> "by5", first |-> "aBey", popularity |-> 7],
            [id |-> "by4", first |-> "aBey", popularity |-> 2],
            [id |-> "by1r", first |-> "aBey", popularity |-> 1] >>
    [] a = "aAbba" ->
         << [id |-> "ab2", first |-> "aAbba"], [id |-> "ab3", first |-> "aAbba"] >>
    [] a = "aBe" -> << [id |-> "be2", first |-> "aBe"] >>

(* ----------------------- strings and sequences ------------------------ *)
\* str.lower() on the characters the catalog uses
LowerChar(c) ==
  CASE c = "A" -> "a" [] c = "B" -> "b" [] c = "E" -> "e" [] c = "U" -> "u"
    [] c = "É" -> "é"
    [] OTHER -> c
Lower(str) == [i \in 1..Len(str) |-> LowerChar(str[i])]

\* a in b, for strings
IsSubstring(a, b) ==
  \E i \in 1..(Len(b) - Len(a) + 1) : SubSeq(b, i, i + Len(a) - 1) = a

\* every order random.shuffle can leave a list in
Shuffles(list) ==
  {[i \in 1..Len(list) |-> list[p[i]]] : p \in Permutations(1..Len(list))}

\* random.sample(population, k): k distinct members, in any order
Samples(S, k) ==
  {q \in [1..k -> S] : \A i, j \in 1..k : i # j => q[i] # q[j]}

CountIn(list, x) == Cardinality({i \in DOMAIN list : list[i] = x})

RECURSIVE SumOver(_, _)
SumOver(S, f) ==
  IF S = {} THEN 0
  ELSE LET x == CHOOSE y \in S : TRUE IN f[x] + SumOver(S \ {x}, f)

\* the first occurrence of each id of a list of album tracks, in order
RECURSIVE UniqueTracks(_)
UniqueTracks(list) ==
  IF list = <<>> THEN <<>>
  ELSE LET init == UniqueTracks(SubSeq(list, 1, Len(list) - 1))
           last == list[Len(list)]
       IN  IF \E i \in DOMAIN init : init[i].id = last.id THEN init
           ELSE Append(init, last)

\* sorted(..., key=popularity or 0, reverse=True): stable, descending
RECURSIVE SortedByPopularity(_)
SortedByPopularity(list) ==
  IF list = <<>> THEN <<>>
  ELSE LET pop(t) == Get(t, "popularity", 0)
           best == CHOOSE i \in DOMAIN list :
                     /\ \A j \in DOMAIN list : pop(list[j]) <= pop(list[i])
                     /\ \A j \in 1..(i - 1) : pop(list[j]) < pop(list[i])
           rest == [j \in 1..(Len(list) - 1) |-> IF j < best THEN list[j] ELSE list[j + 1]]
       IN  <<list[best]>> \o SortedByPopularity(rest)

\* sortedTracks[:int(len(sortedTracks) * 0.75)]
Top75Percent(a) ==
  LET own == SelectSeq(ArtistAlbumTracks(a), LAMBDA t : t.first = a)
      srt == SortedByPopularity(UniqueTracks(own))
      kept == SubSeq(srt, 1, (Len(srt) * 3) \div 4)
  IN  [i \in 1..Len(kept) |-> kept[i].id]

(* ---------------------- the SpotifyConnection calls ------------------- *)
MasterName == "[RX] Master"
RadioName == "[RX] Radio"
TooMuchName == "[RX] Songs I Hear Too Much"

\* getTracksInfo: (name, artistName, artistId) of one track
TrackInfo(t) ==
  LET c == CatalogTrack(t)
  IN  IF c.artists # <<>>
        THEN [name |-> c.name, artistName |-> ArtistName(c.artists[1]),
              artistId |-> c.artists[1]]
        ELSE [name |-> c.name, artistName |-> NameUnknown, artistId |-> "None"]

\* getOrCreatePlaylist: the playlists after it
GetOrCreatePlaylist(pl, name) ==
  IF name \in DOMAIN pl THEN pl ELSE pl @@ (name :> <<>>)

\* clearPlaylist, addTracksToPlaylist: the playlists after them
ClearPlaylist(pl, id) == [pl EXCEPT ![id] = <<>>]
AddTracksToPlaylist(pl, id, trackIds) == [pl EXCEPT ![id] = @ \o trackIds]

(* ------------------------------ startup ------------------------------- *)
\* tooMuchCounts[tid] = tooMuchCounts.get(tid, 0) + 1 over the playlist
TooMuchCountsOf(list) == [t \in Range(list) |-> CountIn(list, t)]

\* artistNameCounts: per artist name, the occurrences of its tracks
ArtistNameCounts(counts) ==
  [n \in {TrackInfo(t).artistName : t \in DOMAIN counts} |->
     SumOver({t \in DOMAIN counts : TrackInfo(t).artistName = n}, counts)]

\* the artists (ids) whose name counts 3 or more
ArtistTooMuchOf(counts) ==
  {TrackInfo(t).artistId : t \in {u \in DOMAIN counts :
      /\ TrackInfo(u).artistId # "None"
      /\ ArtistNameCounts(counts)[TrackInfo(u).artistName] >= 3}}

\* the artist names that count 10 or more
ArtistBlacklistNamesOf(counts) ==
  {n \in DOMAIN ArtistNameCounts(counts) : ArtistNameCounts(counts)[n] >= 10}

\* IsBlacklisted with the names compared as they are, without lower()
IsBlacklistedCaseSensitive(enabled, names, artistName) ==
  enabled /\ \E b \in names : IsSubstring(b, artistName)

\* the blacklist loop of main and of generateRadio
IsBlacklisted(enabled, names, artistName) ==
  enabled /\ \E b \in names : IsSubstring(Lower(b), Lower(artistName))

\* ReplaceAt that grows the list: finalSongs.append(tid)
ReplaceAtAppending(list, index, tid) == Append(list, tid)

\* finalSongs[replaceIndex] = tid
ReplaceAt(list, index, tid) == [list EXCEPT ![index] = tid]

\* main: the Too Much occurrences of the artist's tracks, summed over allInfo
ArtistCountOf(artistId, allInfo, counts) ==
  SumOver({t \in allInfo : TrackInfo(t).artistId = artistId /\ t \in DOMAIN counts}, counts)

\* the display key f"{n} - {a}" of a track
DisplayKey(t) == <<TrackInfo(t).name, TrackInfo(t).artistName>>

\* trackMap: one track id per display key.  Python keeps the entry inserted
\* last, in the order of list(set(rawIds)), which the hash order decides:
\* every choice of one id per key is a possible trackMap.
TrackMaps(allInfo) ==
  {m \in SUBSET allInfo :
     /\ \A t \in allInfo : \E u \in m : DisplayKey(u) = DisplayKey(t)
     /\ \A u, v \in m : DisplayKey(u) = DisplayKey(v) => u = v}

\* rawIds: the tracks of the configured sources, in order
RECURSIVE RawIds(_, _, _)
RawIds(names, pl, likedTracks) ==
  IF names = <<>> THEN <<>>
  ELSE LET name == Head(names)
           got == IF name = "Liked Songs" THEN likedTracks
                  ELSE IF name \in DOMAIN pl THEN pl[name]
                  ELSE <<>>
       IN  got \o RawIds(Tail(names), pl, likedTracks)

\* TopOfMaster taking the last quarter: currentMasterTracks[-splitPoint:]
TopOfMasterFromEnd(currentMasterTracks) ==
  LET splitPoint == Len(currentMasterTracks) \div 4
  IN  SubSeq(currentMasterTracks, Len(currentMasterTracks) - splitPoint + 1,
             Len(currentMasterTracks))

\* splitPoint = len(currentMasterTracks) // 4; currentMasterTracks[:splitPoint]
TopOfMaster(currentMasterTracks) ==
  LET splitPoint == Len(currentMasterTracks) \div 4
  IN  SubSeq(currentMasterTracks, 1, splitPoint)

(* ------------------------------ the inputs ---------------------------- *)
\* a list holding x n times
RECURSIVE Times(_, _)
Times(x, n) == IF n = 0 THEN <<>> ELSE <<x>> \o Times(x, n - 1)

\* the Too Much playlists tried: empty; tracks heard once, twice and three
\* times; one artist 6 times through a track that is in no source; one artist
\* 10 times through two tracks (enough for the blacklist)
TooMuchLists ==
  { <<>>,
    <<"by1", "by2", "by2", "by3", "by3", "by3">>,
    Times("by4", 6),
    Times("be1", 6) \o Times("be2", 4) }

\* the top-track positions tried (track id -> position): none, or some of the
\* catalog's tracks in each tier
TopPositionsTried ==
  { <<>>,
    [t \in {"by1", "by2", "by5", "ab1"} |->
       CASE t = "by1" -> 10 [] t = "by2" -> 60 [] t = "by5" -> 150 [] t = "ab1" -> 0] }

\* runs that exercise the Radio generator: no source playlists for the Master;
\* with the plain selection also Discover Weekly and the append into the Master
RadioConfigs ==
  { [numberOfRadioArtists |-> n, radioArtistSongs |-> k, radioArtistRandomSongs |-> r,
     removeRadioSongsByWeight |-> w, artistBlacklist |-> b, weightModifier |-> ModDen,
     playlistsToInclude |-> <<>>] :
      n \in {1, 5}, k \in 0..MaxRadioSongs, r \in 0..MaxRandomSongs,
      w \in BOOLEAN, b \in BOOLEAN }
  \cup
  { [numberOfRadioArtists |-> n, radioArtistSongs |-> k, radioArtistRandomSongs |-> r,
     includeRadioInMaster |-> im, includeDiscoverWeeklyInRadio |-> dw,
     playlistsToInclude |-> <<>>] :
      n \in {1, 5}, k \in 0..MaxRadioSongs, r \in 0..MaxRandomSongs,
      im \in BOOLEAN, dw \in {TRUE} }

RadioMasters == { <<>>, <<"by1", "x1">>, <<"ab1", "be2", "ab2">> }

InitRadioRun ==
  /\ config \in RadioConfigs
  /\ \E ms \in RadioMasters, tm \in TooMuchLists :
       playlists = (MasterName :> ms) @@ (TooMuchName :> tm)
                   @@ ("Discover Weekly" :> <<"by3">>)
  /\ liked = <<>>
  /\ topPositions \in TopPositionsTried

\* runs that exercise the Master assembler: no radio artist is sampled; one
\* configuration has no playlistsToInclude key
SourceLists == { <<>>, <<"Liked Songs">>, <<"Mix", "Gone", "Liked Songs">> }

MasterConfigs ==
  { [numberOfRadioArtists |-> 0, playlistsToInclude |-> src, artistIHearTooMuch |-> a,
     artistBlacklist |-> b, splitTheDeck |-> sd, weightModifier |-> ModDen] :
      src \in SourceLists, a \in BOOLEAN, b \in BOOLEAN, sd \in BOOLEAN }
  \cup { [numberOfRadioArtists |-> 0, splitTheDeck |-> TRUE] }

MasterMasters ==
  { <<>>, <<"ab1", "by3", "ab2", "x1", "by1">>, <<"by3", "ab1", "ab2", "x1">> }

InitMasterRun ==
  /\ config \in MasterConfigs
  /\ \E ms \in MasterMasters, tm \in TooMuchLists :
       playlists = (MasterName :> ms) @@ (TooMuchName :> tm)
                   @@ ("Mix" :> <<"by1", "by2", "ab1">>) @@ (RadioName :> <<"ab3">>)
  /\ liked \in { <<>>, <<"by1r", "be1", "by1">> }
  /\ topPositions \in TopPositionsTried

InitRun ==
  /\ WeightIdle /\ RetryIdle
  /\ pc = "start"
  /\ InitRadioRun \/ InitMasterRun
  /\ tooMuchCounts = <<>> /\ artistTooMuch = {} /\ artistBlacklistNames = {}
  /\ gr = <<>> /\ mn = <<>> /\ calls = <<>>
  /\ seen = [artists |-> {}, tracks |-> {}]

(* ------------------------- main, up to the radio ---------------------- *)
Startup ==
  /\ pc = "start"
  /\ LET pl == GetOrCreatePlaylist(GetOrCreatePlaylist(playlists, MasterName), TooMuchName)
         counts == TooMuchCountsOf(pl[TooMuchName])
     IN  /\ playlists' = pl
         /\ tooMuchCounts' = counts
         /\ artistTooMuch' = IF Get(config, "artistIHearTooMuch", FALSE)
                               THEN ArtistTooMuchOf(counts) ELSE {}
         /\ artistBlacklistNames' = IF Get(config, "artistBlacklist", FALSE)
                                      THEN ArtistBlacklistNamesOf(counts) ELSE {}
  /\ pc' = "radio"
  /\ UNCHANGED <<envvars, gr, mn, calls, seen>>
  /\ UNCHANGED <<wvars, rvars>>

(* ---------------------------- generateRadio --------------------------- *)
RadioBegin ==
  /\ pc = "radio"
  /\ LET discover == IF Get(config, "includeDiscoverWeeklyInRadio", FALSE)
                        /\ "Discover Weekly" \in DOMAIN playlists
                       THEN playlists["Discover Weekly"] ELSE <<>>
         masterTrackIds == playlists[MasterName]
         artistMap == {TrackInfo(t).artistId : t \in Range(masterTrackIds)} \ {"None"}
         k == Min(Get(config, "numberOfRadioArtists", 5), Cardinality(artistMap))
     IN  \E chosen \in Samples(artistMap, k) :
           gr' = [radioTracks |-> discover, attempted |-> 0,
                  masterTrackIds |-> masterTrackIds, chosen |-> chosen,
                  artistId |-> "None", topRest |-> <<>>, top75Percent |-> <<>>,
                  pool |-> <<>>, topSongs |-> <<>>, finalSongs |-> <<>>,
                  replacementCount |-> 0]
  /\ pc' = "radioArtist"
  /\ UNCHANGED <<envvars, startvars, playlists, mn, calls, seen>>
  /\ UNCHANGED <<wvars, rvars>>

\* for artistId in chosen: the blacklist test, then the fetches
RadioArtist ==
  /\ pc = "radioArtist" /\ gr.chosen # <<>>
  /\ LET a == Head(gr.chosen)
         skip == IsBlacklisted(Get(config, "artistBlacklist", FALSE),
                               artistBlacklistNames, ArtistName(a))
     IN  /\ seen' = [seen EXCEPT !.artists = @ \cup {[artistId |-> a, skipped |-> skip]}]
         /\ IF skip
              THEN /\ gr' = [gr EXCEPT !.chosen = Tail(@), !.artistId = a]
                   /\ pc' = "radioArtist"
              ELSE /\ gr' = [gr EXCEPT !.chosen = Tail(@), !.artistId = a,
                                       !.topRest = ArtistTopTracks(a),
                                       !.top75Percent = Top75Percent(a),
                                       !.pool = <<>>, !.topSongs = <<>>,
                                       !.finalSongs = <<>>, !.replacementCount = 0]
                   /\ pc' = "radioTop"
  /\ UNCHANGED <<envvars, startvars, playlists, mn, calls>>
  /\ UNCHANGED <<wvars, rvars>>

\* for t in topResults: one track
RadioTopTrack ==
  /\ pc = "radioTop" /\ gr.topRest # <<>>
  /\ Len(gr.topSongs) < Get(config, "radioArtistSongs", 10)
  /\ LET tid == Head(gr.topRest)
         w == RadioTopWeight(tid, tooMuchCounts, topPositions, Get(config, "weightModifier", ModDen))
     IN  \E d \in Draws :
           IF Get(config, "removeRadioSongsByWeight", FALSE) /\ RadioTopSkipped(w, d)
             THEN gr' = [gr EXCEPT !.topRest = Tail(@)]
             ELSE gr' = [gr EXCEPT !.topRest = Tail(@), !.topSongs = Append(@, tid),
                                   !.attempted = @ + 1]
  /\ UNCHANGED <<pc, envvars, startvars, playlists, mn, calls, seen>>
  /\ UNCHANGED <<wvars, rvars>>

\* the loop over topResults is over: finalSongs = topSongs.copy() and the shuffle
RadioTopDone ==
  /\ pc = "radioTop"
  /\ gr.topRest = <<>> \/ Len(gr.topSongs) >= Get(config, "radioArtistSongs", 10)
  /\ \E sh \in Shuffles(gr.top75Percent) :
       gr' = [gr EXCEPT !.finalSongs = gr.topSongs, !.pool = sh, !.replacementCount = 0]
  /\ pc' = "radioRepl"
  /\ UNCHANGED <<envvars, startvars, playlists, mn, calls, seen>>
  /\ UNCHANGED <<wvars, rvars>>

\* for t in top75Percent: one track
RadioReplTrack ==
  /\ pc = "radioRepl" /\ gr.pool # <<>>
  /\ gr.replacementCount < Get(config, "radioArtistRandomSongs", 5)
  /\ LET tid == Head(gr.pool)
         w == RadioReplWeight(tid, tooMuchCounts, topPositions, Get(config, "weightModifier", ModDen))
     IN  \E d \in Draws :
           IF \/ tid \in Range(gr.topSongs)
              \/ Get(config, "removeRadioSongsByWeight", FALSE) /\ RadioReplSkipped(w, d)
              \/ gr.finalSongs = <<>>
             THEN gr' = [gr EXCEPT !.pool = Tail(@)]
             ELSE \E replaceIndex \in 1..Len(gr.finalSongs) :
                    gr' = [gr EXCEPT !.pool = Tail(@),
                                     !.finalSongs = ReplaceAt(@, replaceIndex, tid),
                                     !.replacementCount = @ + 1,
                                     !.attempted = @ + 1]
  /\ UNCHANGED <<pc, envvars, startvars, playlists, mn, calls, seen>>
  /\ UNCHANGED <<wvars, rvars>>

\* the loop over top75Percent is over: radioTracks.extend(finalSongs).  The
\* locals of the iteration are dead from here on (the next artist sets them
\* again) and are emptied.
RadioArtistDone ==
  /\ pc = "radioRepl"
  /\ gr.pool = <<>> \/ gr.replacementCount >= Get(config, "radioArtistRandomSongs", 5)
  /\ gr' = [gr EXCEPT !.radioTracks = @ \o gr.finalSongs,
                      !.topRest = <<>>, !.top75Percent = <<>>, !.pool = <<>>,
                      !.topSongs = <<>>, !.finalSongs = <<>>, !.replacementCount = 0]
  /\ pc' = "radioArtist"
  /\ UNCHANGED <<envvars, startvars, playlists, mn, calls, seen>>
  /\ UNCHANGED <<wvars, rvars>>

\* the Radio playlist is overwritten: clear, then add the shuffled tracks
RadioWrite ==
  /\ pc = "radioArtist" /\ gr.chosen = <<>>
  /\ LET pl == ClearPlaylist(GetOrCreatePlaylist(playlists, RadioName), RadioName)
     IN  IF gr.radioTracks # <<>>
           THEN \E sh \in Shuffles(gr.radioTracks) :
                  /\ gr' = [gr EXCEPT !.radioTracks = sh]
                  /\ playlists' = AddTracksToPlaylist(pl, RadioName, sh)
                  /\ calls' = calls \o << <<"clearPlaylist", RadioName>>,
                                         <<"addTracksToPlaylist", RadioName>> >>
           ELSE /\ playlists' = pl
                /\ calls' = Append(calls, <<"clearPlaylist", RadioName>>)
                /\ UNCHANGED gr
  /\ pc' = "radioMaster"
  /\ UNCHANGED <<envvars, startvars, mn, seen>>
  /\ UNCHANGED <<wvars, rvars>>

\* if self.includeInMaster: the radio tracks the Master did not hold are appended
RadioIntoMaster ==
  /\ pc = "radioMaster"
  /\ LET toAdd == SelectSeq(gr.radioTracks, LAMBDA t : t \notin Range(gr.masterTrackIds))
     IN  IF Get(config, "includeRadioInMaster", FALSE) /\ toAdd # <<>>
           THEN \E sh \in Shuffles(toAdd) :
                  /\ playlists' = AddTracksToPlaylist(playlists, MasterName, sh)
                  /\ calls' = Append(calls, <<"addTracksToPlaylist", MasterName>>)
           ELSE UNCHANGED <<playlists, calls>>
  /\ pc' = "master"
  /\ UNCHANGED <<envvars, startvars, gr, mn, seen>>
  /\ UNCHANGED <<wvars, rvars>>

(* ------------------------- main, the Master part ---------------------- *)
\* the sources are read and trackMap is built; config["playlistsToInclude"]
\* raises KeyError when the key is missing
MasterCollect ==
  /\ pc = "master"
  /\ IF "playlistsToInclude" \notin DOMAIN config
       THEN /\ pc' = "KeyError"
            /\ UNCHANGED mn
       ELSE /\ pc' = "masterDecide"
            /\ LET allInfo == Range(RawIds(config["playlistsToInclude"], playlists, liked))
               IN  \E trackMap \in TrackMaps(allInfo) :
                     mn' = [allInfo |-> allInfo, trackMap |-> trackMap, selected |-> <<>>,
                            currentMasterTracks |-> <<>>, topOfMaster |-> <<>>,
                            bottomHalfOfMaster |-> <<>>, topHalfOfSelected |-> <<>>,
                            split |-> FALSE]
  /\ UNCHANGED <<envvars, startvars, playlists, gr, calls, seen>>
  /\ UNCHANGED <<wvars, rvars>>

\* for key, (tid, name, artist) in trackMap.items(): one candidate
MasterTrack ==
  /\ pc = "masterDecide" /\ mn.trackMap # {}
  /\ \E tid \in mn.trackMap :
       LET info == TrackInfo(tid)
           m == Get(config, "weightModifier", ModDen)
           skip == IsBlacklisted(Get(config, "artistBlacklist", FALSE),
                                 artistBlacklistNames, info.artistName)
           artistOn == tid \in mn.allInfo /\ Get(config, "artistIHearTooMuch", FALSE)
           inTooMuch == info.artistId \in artistTooMuch
           artistCount == IF artistOn /\ inTooMuch
                            THEN ArtistCountOf(info.artistId, mn.allInfo, tooMuchCounts)
                            ELSE 0
           weight == MasterWeight(MasterTrackWeight(tid, tooMuchCounts, topPositions, m),
                                  artistOn, inTooMuch, artistCount, m)
       IN  IF skip
             THEN /\ mn' = [mn EXCEPT !.trackMap = @ \ {tid}]
                  /\ seen' = [seen EXCEPT !.tracks = @ \cup
                       {[tid |-> tid, skipped |-> TRUE, weight |-> 0, included |-> FALSE]}]
             ELSE \E d \in Draws :
                    LET included == MasterIncluded(weight, d)
                    IN  /\ mn' = [mn EXCEPT !.trackMap = @ \ {tid},
                                            !.selected = IF included THEN Append(@, tid) ELSE @]
                        /\ seen' = [seen EXCEPT !.tracks = @ \cup
                             {[tid |-> tid, skipped |-> FALSE, weight |-> weight,
                               included |-> included]}]
  /\ UNCHANGED <<pc, envvars, startvars, playlists, gr, calls>>
  /\ UNCHANGED <<wvars, rvars>>

\* if selected: the shuffle (split the deck or plain), then clear and add
MasterWrite ==
  /\ pc = "masterDecide" /\ mn.trackMap = {}
  /\ IF mn.selected # <<>>
       THEN /\ IF Get(config, "splitTheDeck", FALSE) /\ playlists[MasterName] # <<>>
                 THEN LET currentMasterTracks == playlists[MasterName]
                          topOfMaster == TopOfMaster(currentMasterTracks)
                      IN  \E sh \in Shuffles(mn.selected) :
                            LET bottomHalfPoint == Len(sh) \div 2
                                bottomHalfOfMaster == SubSeq(sh, bottomHalfPoint + 1, Len(sh))
                                topHalfOfSelected == SubSeq(sh, 1, bottomHalfPoint)
                            IN  \E combinedForBottom \in Shuffles(bottomHalfOfMaster \o topOfMaster) :
                                  mn' = [mn EXCEPT
                                    !.selected = topHalfOfSelected \o combinedForBottom,
                                    !.currentMasterTracks = currentMasterTracks,
                                    !.topOfMaster = topOfMaster,
                                    !.bottomHalfOfMaster = bottomHalfOfMaster,
                                    !.topHalfOfSelected = topHalfOfSelected,
                                    !.split = TRUE]
                 ELSE \E sh \in Shuffles(mn.selected) : mn' = [mn EXCEPT !.selected = sh]
            /\ playlists' = AddTracksToPlaylist(ClearPlaylist(playlists, MasterName),
                                                MasterName, mn'.selected)
            /\ calls' = calls \o << <<"clearPlaylist", MasterName>>,
                                   <<"addTracksToPlaylist", MasterName>> >>
       ELSE UNCHANGED <<playlists, mn, calls>>
  /\ pc' = "done"
  /\ UNCHANGED <<envvars, startvars, gr, seen>>
  /\ UNCHANGED <<wvars, rvars>>

NextRun ==
  \/ Startup
  \/ RadioBegin
  \/ RadioArtist
  \/ RadioTopTrack
  \/ RadioTopDone
  \/ RadioReplTrack
  \/ RadioArtistDone
  \/ RadioWrite
  \/ RadioIntoMaster
  \/ MasterCollect
  \/ MasterTrack
  \/ MasterWrite

Spec == InitRun /\ [][NextRun]_vars

(* ----------------------- the claims about the run --------------------- *)
SameMembers(a, b) == \A x \in Range(a) \cup Range(b) : CountIn(a, x) = CountIn(b, x)

\* C1: when the Master part selects no track, the run still overwrites the
\* Master, which ends empty: clearPlaylist(Master) is called and no
\* addTracksToPlaylist(Master) follows it.
C1_EmptySelectionClearsMaster ==
  (pc = "done" /\ mn.selected = <<>>) =>
    /\ playlists[MasterName] = <<>>
    /\ \E i \in DOMAIN calls :
         /\ calls[i] = <<"clearPlaylist", MasterName>>
         /\ \A j \in (i + 1)..Len(calls) : calls[j] # <<"addTracksToPlaylist", MasterName>>

\* the replacement loop of the current artist is over
RadioReplOver ==
  /\ pc = "radioRepl"
  /\ gr.pool = <<>> \/ gr.replacementCount >= Get(config, "radioArtistRandomSongs", 5)

\* C5: for every chosen artist, after the top-track selection and after every
\* replacement step the per-artist list has as many entries as were selected
\* from the top tracks, and never more than radioArtistSongs.
C5_SlotCountKept ==
  /\ pc \in {"radioTop", "radioRepl"} =>
       Len(gr.topSongs) <= Get(config, "radioArtistSongs", 10)
  /\ pc = "radioRepl" => Len(gr.finalSongs) = Len(gr.topSongs)

\* three slots, the second replacement made
C5_Witness ==
  /\ pc = "radioRepl" /\ gr.replacementCount = 2
  /\ Len(gr.topSongs) = 3 /\ Len(gr.finalSongs) = 3
  /\ Get(config, "radioArtistSongs", 10) = 3

\* the replacement pool of the current artist: the top-75% album tracks that
\* were not selected from the top tracks
ReplacementPool == Range(gr.top75Percent) \ Range(gr.topSongs)

\* C6: without weight-based removal and with at least one slot, exactly
\* min(radioArtistRandomSongs, pool size) of the slots end up holding a track
\* of the replacement pool.  (Stated where the slots are enough for that many
\* replacements; with fewer slots the number cannot be reached at all.)
C6_ExactlyMinSlotsReplaced ==
  LET wanted == Min(Get(config, "radioArtistRandomSongs", 5), Cardinality(ReplacementPool))
  IN  (/\ RadioReplOver
       /\ ~Get(config, "removeRadioSongsByWeight", FALSE)
       /\ gr.topSongs # <<>> /\ Len(gr.topSongs) >= wanted)
      => Cardinality({i \in DOMAIN gr.finalSongs : gr.finalSongs[i] \in ReplacementPool})
           = wanted

\* C7: with splitTheDeck, a non-empty selection and a non-empty current Master,
\* the list written has the length of firstHalf + secondHalf + Q, Q being the
\* first floor(len/4) entries of the current Master; the two halves split the
\* shuffled selection at floor(len/2) and hold every selected track once;
\* firstHalf comes first and the rest is a permutation of secondHalf + Q.
C7_SplitTheDeck ==
  [][(/\ pc = "masterDecide" /\ pc' = "done"
      /\ Get(config, "splitTheDeck", FALSE)
      /\ mn.selected # <<>> /\ playlists[MasterName] # <<>>)
     => LET cur == playlists[MasterName]
            Q == SubSeq(cur, 1, Len(cur) \div 4)
            out == playlists'[MasterName]
            firstHalf == mn'.topHalfOfSelected
            secondHalf == mn'.bottomHalfOfMaster
        IN  /\ Len(out) = Len(firstHalf) + Len(secondHalf) + Len(Q)
            /\ Len(firstHalf) = Len(mn.selected) \div 2
            /\ SameMembers(firstHalf \o secondHalf, mn.selected)
            /\ \A t \in Range(mn.selected) : CountIn(firstHalf \o secondHalf, t) = 1
            /\ SubSeq(out, 1, Len(firstHalf)) = firstHalf
            /\ SameMembers(SubSeq(out, Len(firstHalf) + 1, Len(out)), secondHalf \o Q)]_vars

\* four tracks selected, one kept from a Master of five
C7_Witness ==
  /\ pc = "done" /\ mn.split
  /\ Len(mn.topHalfOfSelected) = 2 /\ Len(mn.bottomHalfOfMaster) = 2
  /\ mn.topOfMaster = <<"ab1">>
  /\ Len(playlists[MasterName]) = 5

\* the occurrences of an artist's tracks in the Too Much playlist
TooMuchOccurrencesOf(artistId) ==
  Cardinality({i \in DOMAIN playlists[TooMuchName] :
                 TrackInfo(playlists[TooMuchName][i]).artistId = artistId})

\* C8: with artistIHearTooMuch, a Master candidate's weight is further reduced
\* by 3 x modifier when its primary artist occurs 6 or more times in the Too
\* Much list, by 2 x modifier when 3 to 5 times, by nothing below 3, whatever
\* tracks of the artist the sources hold; without the feature, by nothing.
C8_ArtistReductionByTotal ==
  \A r \in seen.tracks :
    ~r.skipped =>
      LET m == Get(config, "weightModifier", ModDen)
          artist == TrackInfo(r.tid).artistId
          tier == TierOfArtist(Get(config, "artistIHearTooMuch", FALSE) /\ artist # "None",
                               TooMuchOccurrencesOf(artist))
      IN  r.weight = MasterTrackWeight(r.tid, tooMuchCounts, topPositions, m) - m * tier

\* entry is a substring of name, letter case aside
MatchesIgnoringCase(entry, name) ==
  \E at \in 0..(Len(name) - Len(entry)) :
    \A i \in 1..Len(entry) : LowerChar(entry[i]) = LowerChar(name[at + i])

OnBlacklist(name) ==
  /\ Get(config, "artistBlacklist", FALSE)
  /\ \E entry \in artistBlacklistNames : MatchesIgnoringCase(entry, name)

\* C9: with artistBlacklist, a Master candidate and a chosen Radio artist are
\* skipped, without a weight or a draw, exactly when a blacklist entry is a
\* case-insensitive substring of the artist name; without it nothing is.
C9_BlacklistSkips ==
  /\ \A r \in seen.tracks :
       /\ r.skipped <=> OnBlacklist(TrackInfo(r.tid).artistName)
       /\ r.skipped => (~r.included /\ r.tid \notin Range(mn.selected))
  /\ \A a \in seen.artists : a.skipped <=> OnBlacklist(ArtistName(a.artistId))
  /\ pc \in {"radioTop", "radioRepl"} => ~OnBlacklist(ArtistName(gr.artistId))

\* the entry "BE" skips a track of "Beyoncé", and "Abba" is let through
C9_Witness ==
  /\ artistBlacklistNames = {NameBe}
  /\ \E r \in seen.tracks : r.tid = "by2" /\ r.skipped
  /\ \E r \in seen.tracks : r.tid = "ab1" /\ ~r.skipped

\* C11: a configuration without a playlistsToInclude list makes the run fail at
\* startup, before any clearPlaylist or addTracksToPlaylist call on the Radio
\* or the Master playlist.
C11_MissingSourceListFailsAtStartup ==
  "playlistsToInclude" \notin DOMAIN config =>
    /\ pc \notin {"masterDecide", "done"}
    /\ \A i \in DOMAIN calls : calls[i][2] \notin {RadioName, MasterName}

\* C12: with includeRadioInMaster, generateRadio appends to the Master exactly
\* the radio tracks that are not in the Master snapshot read at its start, each
\* of them once, and leaves the tracks of the Master in place; without the
\* option generateRadio makes no write to the Master.
C12_RadioIntoMasterIsSetDifference ==
  [][(pc = "radioMaster" /\ pc' = "master")
     => LET old == playlists[MasterName]
            new == playlists'[MasterName]
            appended == SubSeq(new, Len(old) + 1, Len(new))
        IN  IF Get(config, "includeRadioInMaster", FALSE)
              THEN /\ Len(new) >= Len(old)
                   /\ SubSeq(new, 1, Len(old)) = old
                   /\ Range(appended) = Range(gr.radioTracks) \ Range(gr.masterTrackIds)
                   /\ \A t \in Range(appended) : CountIn(appended, t) = 1
              ELSE /\ new = old
                   /\ calls' = calls]_vars

\* C13: after a run in which the Master part writes the Master, the written
\* Master holds every track id at most once, whatever the configuration and
\* the Master's content before.
C13_WrittenMasterHasNoRepeats ==
  (pc = "done" /\ mn.selected # <<>>) =>
    \A t \in Range(playlists[MasterName]) : CountIn(playlists[MasterName], t) = 1

\* C14: with artistBlacklist, after the Master part writes the Master, no track
\* of the written Master has an artist name that contains a blacklist entry,
\* letter case aside, whatever the configuration (splitTheDeck included) and
\* the Master's content before.
C14_WrittenMasterHasNoBlacklistedArtist ==
  (pc = "done" /\ mn.selected # <<>> /\ Get(config, "artistBlacklist", FALSE)) =>
    \A t \in Range(playlists[MasterName]) : ~OnBlacklist(TrackInfo(t).artistName)

(* ===================== SpotifyConnection._withRetry =================== *)
(* One call after another through _withRetry.  The service answers an     *)
(* attempt with a result, with a SpotifyException of some http_status      *)
(* (429 carries a Retry-After header or none), or the call fails with an  *)
(* exception that is no SpotifyException.                                  *)
ClientFuncs ==
  {"current_user_playlists", "next", "user_playlist_create", "playlist_items",
   "current_user_saved_tracks", "current_user_top_tracks", "tracks",
   "playlist_replace_items", "playlist_add_items",
   "artist_top_tracks", "artist_albums", "album_tracks"}
Results == {"page1", "page2"}
OtherStatuses == {401, 404, 500, 503}
\* the Retry-After header of a 429: absent, or a number of seconds
NoHeader == [present |-> FALSE, seconds |-> 0]
RetryAfterHeaders ==
  {NoHeader} \cup {[present |-> TRUE, seconds |-> n] : n \in 0..MaxRetryAfter}

\* IsRateLimit that also takes 503 (service unavailable) for a rate limit
IsRateLimitOrUnavailable(status) == status \in {RateLimited, 503}

\* if e.http_status == 429
IsRateLimit(status) == status = RateLimited

\* int(e.headers.get("Retry-After", 1))
RetryAfterOf(header) == IF header.present THEN header.seconds ELSE 1

InitRetry ==
  /\ WeightIdle /\ RunIdle
  /\ rpc = "idle" /\ rfunc = "none" /\ ranswer = [kind |-> "none"]
  /\ rsleep = 0 /\ rout = [kind |-> "none"] /\ rattempts = 0 /\ rfailures = 0

\* a caller enters _withRetry(func, ...): the first call of the run, or the
\* next one after a call that returned
RetryCall ==
  /\ rpc \in {"idle", "returned"}
  /\ \E f \in ClientFuncs : rfunc' = f
  /\ rpc' = "trying"
  /\ ranswer' = [kind |-> "none"] /\ rout' = [kind |-> "none"]
  /\ rsleep' = 0 /\ rattempts' = 0 /\ rfailures' = 0
  /\ UNCHANGED <<wvars, runvars>>

\* return func(*args, **kwargs)
AttemptReturns ==
  /\ rpc = "trying"
  /\ \E v \in Results :
       /\ ranswer' = [kind |-> "ok", value |-> v]
       /\ rout' = [kind |-> "result", value |-> v]
  /\ rpc' = "returned"
  /\ rattempts' = Min(rattempts + 1, MaxAttempts)
  /\ UNCHANGED <<rfunc, rsleep, rfailures>>
  /\ UNCHANGED <<wvars, runvars>>

\* except SpotifyException as e: 429 sleeps and loops, any other status is raised
AttemptSpotifyException ==
  /\ rpc = "trying"
  /\ \E st \in OtherStatuses \cup {RateLimited}, h \in RetryAfterHeaders :
       /\ (st # RateLimited => h = NoHeader)
       /\ ranswer' = [kind |-> "SpotifyException", status |-> st, retryAfter |-> h]
       /\ IF IsRateLimit(st)
            THEN /\ rpc' = "sleeping"
                 /\ rsleep' = RetryAfterOf(h)
                 /\ UNCHANGED rout
            ELSE /\ rpc' = "raised"
                 /\ rout' = [kind |-> "SpotifyException", status |-> st]
                 /\ UNCHANGED rsleep
       /\ rfailures' = IF st = RateLimited THEN rfailures ELSE rfailures + 1
  /\ rattempts' = Min(rattempts + 1, MaxAttempts)
  /\ UNCHANGED rfunc
  /\ UNCHANGED <<wvars, runvars>>

\* an exception that is no SpotifyException is not caught
AttemptOtherException ==
  /\ rpc = "trying"
  /\ ranswer' = [kind |-> "Exception"]
  /\ rout' = [kind |-> "Exception"]
  /\ rpc' = "raised"
  /\ rfailures' = rfailures + 1
  /\ rattempts' = Min(rattempts + 1, MaxAttempts)
  /\ UNCHANGED <<rfunc, rsleep>>
  /\ UNCHANGED <<wvars, runvars>>

\* time.sleep(retryAfter): a second passes
SleepSecond ==
  /\ rpc = "sleeping" /\ rsleep > 0
  /\ rsleep' = rsleep - 1
  /\ UNCHANGED <<rpc, rfunc, ranswer, rout, rattempts, rfailures>>
  /\ UNCHANGED <<wvars, runvars>>

\* the sleep is over: while True goes round
SleepOver ==
  /\ rpc = "sleeping" /\ rsleep = 0
  /\ rpc' = "trying"
  /\ UNCHANGED <<rfunc, ranswer, rsleep, rout, rattempts, rfailures>>
  /\ UNCHANGED <<wvars, runvars>>

NextRetry ==
  \/ RetryCall
  \/ AttemptReturns
  \/ AttemptSpotifyException
  \/ AttemptOtherException
  \/ SleepSecond
  \/ SleepOver

\* an attempt the service does not throttle
AttemptNotThrottled ==
  /\ (AttemptReturns \/ AttemptSpotifyException \/ AttemptOtherException)
  /\ rpc' # "sleeping"

SpecRetry == InitRetry /\ [][NextRetry]_vars

\* The process runs while it can (the sleep ends, the loop goes on), and the
\* service does not throttle a call for ever.
FairSpecRetry ==
  /\ InitRetry /\ [][NextRetry]_vars
  /\ WF_vars(SleepSecond) /\ WF_vars(SleepOver)
  /\ SF_vars(AttemptNotThrottled)

(* ------------------------ the claim about retry ----------------------- *)
RetryNever429Raised ==
  rpc = "raised" => ~(rout.kind = "SpotifyException" /\ rout.status = RateLimited)

\* a throttled attempt is followed by the sleep and another attempt of the
\* same call, however many attempts there were
RetryThrottledTriesAgain ==
  /\ (ranswer.kind = "SpotifyException" /\ ranswer.status = RateLimited)
       => rpc \in {"sleeping", "trying"}
  /\ rpc = "sleeping" => (rsleep = 0 => ENABLED SleepOver)

RetrySameCall ==
  [][(rpc \in {"trying", "sleeping"}) => (rfunc' = rfunc)]_vars

\* what comes out is the answer of the latest attempt
RetryHandsOverAnswer ==
  /\ rpc = "returned" => (ranswer.kind = "ok" /\ rout = [kind |-> "result", value |-> ranswer.value])
  /\ rpc = "raised" =>
       \/ ranswer.kind = "Exception" /\ rout.kind = "Exception"
       \/ /\ ranswer.kind = "SpotifyException"
          /\ rout = [kind |-> "SpotifyException", status |-> ranswer.status]

\* a failure other than 429 ends the call at once: none is ever retried
RetryFirstFailureRaised ==
  /\ rpc \in {"trying", "sleeping", "returned"} => rfailures = 0
  /\ rpc = "raised" => rfailures = 1

\* C10: through _withRetry a 429 is never raised to the caller, each
\* throttled attempt is followed by another attempt of the same call without
\* a bound on their number, the call ends with the answer of the first attempt
\* that is not throttled (a result returned, any other failure raised at its
\* first occurrence), and it does end when the service stops throttling.
C10_RetryUntilNotThrottled ==
  /\ [](RetryNever429Raised /\ RetryThrottledTriesAgain
        /\ RetryHandsOverAnswer /\ RetryFirstFailureRaised)
  /\ RetrySameCall
  /\ [](rpc \in {"trying", "sleeping"} => <>(rpc \in {"returned", "raised"}))

\* a call that was throttled as often as the model counts, and returned
C10_Witness ==
  /\ rpc = "returned" /\ rattempts = MaxAttempts
  /\ rout.kind = "result" /\ rfunc = "playlist_add_items"

====
